---------------------------- MODULE Spec2Model ----------------------------
(***************************************************************************)
(* SimpleShare file sharing server (src/app.py).                           *)
(*                                                                         *)
(* The Flask development server started at app.py:353 serves each request  *)
(* on its own thread, so the handlers interleave.  A handler is modelled   *)
(* as a sequence of steps, one per filesystem call and one per database    *)
(* transaction.  Every handler opens its own sqlite3 connection; its       *)
(* SELECT runs outside any transaction, and the statements between the     *)
(* first INSERT/UPDATE/DELETE and conn.commit() run under the database     *)
(* write lock, so they form one atomic step that other connections see     *)
(* only once committed.  A writer that cannot get the lock within the      *)
(* connection's busy timeout ("database is locked") is not modelled.       *)
(*                                                                         *)
(* Timestamps are integers read from the clock `now`.  A physical file is  *)
(* named stored_name = file_id + '_' + original_name, which is unique per  *)
(* file_id; the upload directory is therefore keyed by file_id.  The clock  *)
(* is taken to be monotonic.                                               *)
(***************************************************************************)
EXTENDS Integers, FiniteSets

\* ----------------------------------------------------------------- bounds
MaxClock == 2        \* last clock reading
MaxDownloads == 1    \* a download is requested only below this count

\* ------------------------------------------------------ program constants
MAX_FILE_SIZE == 1   \* MAX_CONTENT_LENGTH, in chunks written by file.save
RETENTION == 1       \* timedelta(days=30), in clock units

\* Two request threads of the server, and the two uuid4 values it hands
\* out, numbered in the order it generates them.
Threads == {"t1", "t2"}
Ids == {1, 2}

VARIABLES
    files,       \* table files: file_id -> row
    logs,        \* table download_logs: file_id -> number of rows
    disk,        \* upload folder: file_id -> chunks on disk
    now,         \* CURRENT_TIMESTAMP / datetime.now()
    nextId,      \* uuid4 values generated so far
    th,          \* each thread's handler, position and local variables
    payload,     \* history: body length of the upload behind each file being written or kept
    unlinked,    \* history: ids whose file was os.remove'd
    removed,     \* history: delete_file calls on each id that answered success
    served       \* history: downloads answered with 200 for each row in the table

vars == <<files, logs, disk, now, nextId, th, payload, unlinked, removed, served>>

\* A thread between requests.  pc: position; op: handler; fid: file_id;
\* size: length of the uploaded body; fsize: os.path.getsize result;
\* info: file_info['download_count']; rows: rows the UPDATE changed;
\* cutoff: thirty_days_ago; old: old_files not yet visited; status: HTTP status;
\* late (history): the request came after a delete_file of its id had succeeded.
Idle ==
    [pc |-> "idle", op |-> "none", fid |-> 0, size |-> 0, fsize |-> 0,
     info |-> 0, rows |-> 0, cutoff |-> 0, old |-> {}, status |-> 0,
     late |-> FALSE]

\* init_database on an empty folder: both tables empty, no files.
Init ==
    /\ files = [i \in {} |-> 0]
    /\ logs = [i \in Ids |-> 0]
    /\ disk = [i \in {} |-> 0]
    /\ now = 0
    /\ nextId = 0
    /\ th = [t \in Threads |-> Idle]
    /\ payload = [i \in Ids |-> 0]
    /\ unlinked = {}
    /\ removed = [i \in Ids |-> 0]
    /\ served = [i \in Ids |-> 0]

\* cursor.fetchone() after SELECT * FROM files WHERE id = ?
Found(id) == id \in DOMAIN files

\* os.path.exists(os.path.join(UPLOAD_FOLDER, stored_name))
Exists(id) == id \in DOMAIN disk

\* Function f extended or overwritten at k.
Put(f, k, v) == [x \in DOMAIN f \cup {k} |-> IF x = k THEN v ELSE f[x]]

\* Function f without the keys in S.
Drop(f, S) == [x \in DOMAIN f \ S |-> f[x]]

\* Faulty variant: the counter column defaults to 1.
NewRowCountedFromOne(sz, ts) ==
    [file_size |-> sz, upload_date |-> ts, download_count |-> 1,
     last_accessed |-> ts]

\* The row INSERT INTO files creates: upload_date and last_accessed
\* DEFAULT CURRENT_TIMESTAMP, download_count DEFAULT 0.
NewRow(sz, ts) ==
    [file_size |-> sz, upload_date |-> ts, download_count |-> 0,
     last_accessed |-> ts]

\* SET download_count = download_count + 1, last_accessed = CURRENT_TIMESTAMP
Touch(row, ts) ==
    [row EXCEPT !.download_count = @ + 1, !.last_accessed = ts]

\* WHERE last_accessed < ? OR upload_date < ?
IsOld(row, c) == row.last_accessed < c \/ row.upload_date < c

\* The rows the sweep's WHERE clause matches for a cutoff c.
Expired(c) == {i \in DOMAIN files : IsOld(files[i], c)}

\* api_files: SELECT id, ... FROM files (the ids listed).
ListAll == DOMAIN files

\* Thread t moves to label inside its handler.
Goto(t, label) == th' = [th EXCEPT ![t].pc = label]

\* Handler o, working on id, leaves with an HTTP status.
Reply(t, o, id, code) ==
    th' = [th EXCEPT ![t] =
              [Idle EXCEPT !.pc = "ret", !.op = o, !.fid = id, !.status = code,
                           !.late = th[t].late \/ (th[t].pc = "idle" /\ removed[id] > 0)]]

Respond(t, code) == Reply(t, th[t].op, th[t].fid, code)

\* ------------------------------------------------------------------ clock
Tick ==
    /\ now < MaxClock
    /\ now' = now + 1
    /\ UNCHANGED <<files, logs, disk, nextId, th, payload, unlinked, removed, served>>

\* ----------------------------------------------------------- upload_file
\* file_id = str(uuid.uuid4()); stored_name = file_id + '_' + original_name.
UploadBegin(t) ==
    /\ th[t].pc = "idle"
    /\ nextId + 1 \in Ids
    /\ nextId' = nextId + 1
    /\ \E n \in 1..MAX_FILE_SIZE :
        /\ th' = [th EXCEPT ![t] = [Idle EXCEPT !.pc = "up_open", !.op = "upload",
                                                !.fid = nextId + 1, !.size = n]]
        /\ payload' = [payload EXCEPT ![nextId + 1] = n]
    /\ UNCHANGED <<files, logs, disk, now, unlinked, removed, served>>

\* Faulty variant: the row is inserted before the file is written.
SaveOpenRecorded(t) ==
    /\ th[t].pc = "up_open"
    /\ disk' = Put(disk, th[t].fid, 0)
    /\ files' = Put(files, th[t].fid, NewRow(th[t].size, now))
    /\ Goto(t, "up_write")
    /\ UNCHANGED <<logs, now, nextId, payload, unlinked, removed, served>>

\* file.save(file_path): the destination is opened for writing, empty.
SaveOpen(t) ==
    /\ th[t].pc = "up_open"
    /\ disk' = Put(disk, th[t].fid, 0)
    /\ Goto(t, "up_write")
    /\ UNCHANGED <<files, logs, now, nextId, payload, unlinked, removed, served>>

\* file.save(file_path): one more chunk is copied; save returns after the last.
SaveWrite(t) ==
    /\ th[t].pc = "up_write"
    /\ disk' = [disk EXCEPT ![th[t].fid] = @ + 1]
    /\ Goto(t, IF disk[th[t].fid] + 1 = th[t].size THEN "up_getsize" ELSE "up_write")
    /\ UNCHANGED <<files, logs, now, nextId, payload, unlinked, removed, served>>

\* Faulty variant: the failed upload still leaves a row behind.
SaveFailRecorded(t) ==
    /\ th[t].pc \in {"up_open", "up_write"}
    /\ files' = Put(files, th[t].fid, NewRow(0, now))
    /\ Respond(t, 500)
    /\ payload' = [payload EXCEPT ![th[t].fid] = 0]
    /\ UNCHANGED <<logs, disk, now, nextId, unlinked, removed, served>>

\* file.save raises (disk full, permission): except Exception, 500.
SaveFail(t) ==
    /\ th[t].pc \in {"up_open", "up_write"}
    /\ Respond(t, 500)
    /\ payload' = [payload EXCEPT ![th[t].fid] = 0]
    /\ UNCHANGED <<files, logs, disk, now, nextId, unlinked, removed, served>>

\* file_size = os.path.getsize(file_path)
GetSize(t) ==
    /\ th[t].pc = "up_getsize"
    /\ th' = [th EXCEPT ![t].pc = "up_insert", ![t].fsize = disk[th[t].fid]]
    /\ UNCHANGED <<files, logs, disk, now, nextId, payload, unlinked, removed, served>>

\* INSERT INTO files ...; conn.commit(); redirect.
Insert(t) ==
    /\ th[t].pc = "up_insert"
    /\ files' = Put(files, th[t].fid, NewRow(th[t].fsize, now))
    /\ Respond(t, 302)
    /\ UNCHANGED <<logs, disk, now, nextId, payload, unlinked, removed, served>>

\* --------------------------------------------------------- download_file
\* SELECT * FROM files WHERE id = ?; 404 when there is no row.
DownloadSelect(t, id) ==
    /\ th[t].pc = "idle"
    /\ Found(id) => files[id].download_count < MaxDownloads
    /\ IF Found(id)
       THEN th' = [th EXCEPT ![t] = [Idle EXCEPT !.pc = "dl_update",
                                                 !.op = "download", !.fid = id,
                                                 !.info = files[id].download_count,
                                                 !.late = removed[id] > 0]]
       ELSE Reply(t, "download", id, 404)
    /\ UNCHANGED <<files, logs, disk, now, nextId, payload, unlinked, removed, served>>

\* Faulty variant: the UPDATE has no WHERE clause and counts on every row.
CountedAll(t) ==
    [i \in DOMAIN files |-> Touch(files[i], now)]

\* Faulty variant: the new count is computed from the row read by the SELECT.
CountedFromInfo(t) ==
    IF Found(th[t].fid)
    THEN Put(files, th[t].fid,
             [files[th[t].fid] EXCEPT !.download_count = th[t].info + 1,
                                      !.last_accessed = now])
    ELSE files

\* UPDATE files SET download_count = download_count + 1, ... WHERE id = ?
Counted(t) ==
    IF Found(th[t].fid)
    THEN Put(files, th[t].fid, Touch(files[th[t].fid], now))
    ELSE files

\* INSERT INTO download_logs (file_id, ip_address)
Logged(id) == [logs EXCEPT ![id] = @ + 1]

\* The UPDATE, the INSERT and conn.commit().
DownloadCommit(t) ==
    /\ th[t].pc = "dl_update"
    /\ files' = Counted(t)
    /\ logs' = Logged(th[t].fid)
    /\ th' = [th EXCEPT ![t].pc = "dl_exists",
                        ![t].rows = IF Found(th[t].fid) THEN 1 ELSE 0]
    /\ UNCHANGED <<disk, now, nextId, payload, unlinked, removed, served>>

\* if os.path.exists(file_path): ... else: 404 "File not found on disk!"
DownloadExists(t) ==
    /\ th[t].pc = "dl_exists"
    /\ IF Exists(th[t].fid) THEN Goto(t, "dl_send") ELSE Respond(t, 404)
    /\ UNCHANGED <<files, logs, disk, now, nextId, payload, unlinked, removed, served>>

\* send_file(file_path, ...): opens the file; raises when it is gone by now.
DownloadSend(t) ==
    /\ th[t].pc = "dl_send"
    /\ IF Exists(th[t].fid)
       THEN /\ Respond(t, 200)
            /\ served' = [served EXCEPT ![th[t].fid] = IF Found(th[t].fid) THEN @ + 1 ELSE @]
       ELSE /\ Respond(t, 500)
            /\ UNCHANGED served
    /\ UNCHANGED <<files, logs, disk, now, nextId, payload, unlinked, removed>>

\* ----------------------------------------------------------- delete_file
\* Faulty variant: the handler goes on without looking at the SELECT's result.
DeleteSelectUnchecked(t, id) ==
    /\ th[t].pc = "idle"
    /\ th' = [th EXCEPT ![t] = [Idle EXCEPT !.pc = "del_exists",
                                            !.op = "delete", !.fid = id]]
    /\ UNCHANGED <<files, logs, disk, now, nextId, payload, unlinked, removed, served>>

\* SELECT * FROM files WHERE id = ?; 404 when there is no row.
DeleteSelect(t, id) ==
    /\ th[t].pc = "idle"
    /\ IF Found(id)
       THEN th' = [th EXCEPT ![t] = [Idle EXCEPT !.pc = "del_exists",
                                                 !.op = "delete", !.fid = id,
                                                 !.late = removed[id] > 0]]
       ELSE Reply(t, "delete", id, 404)
    /\ UNCHANGED <<files, logs, disk, now, nextId, payload, unlinked, removed, served>>

\* if os.path.exists(file_path)
DeleteExists(t) ==
    /\ th[t].pc = "del_exists"
    /\ Goto(t, IF Exists(th[t].fid) THEN "del_remove" ELSE "del_db")
    /\ UNCHANGED <<files, logs, disk, now, nextId, payload, unlinked, removed, served>>

\* os.remove(file_path); FileNotFoundError lands in except Exception, 500.
DeleteRemove(t) ==
    /\ th[t].pc = "del_remove"
    /\ IF Exists(th[t].fid)
       THEN /\ disk' = Drop(disk, {th[t].fid})
            /\ unlinked' = unlinked \cup {th[t].fid}
            /\ payload' = [payload EXCEPT ![th[t].fid] = 0]
            /\ Goto(t, "del_db")
       ELSE /\ Respond(t, 500)
            /\ UNCHANGED <<disk, unlinked, payload>>
    /\ UNCHANGED <<files, logs, now, nextId, removed, served>>

\* DELETE FROM download_logs WHERE file_id = ?; DELETE FROM files WHERE id = ?;
\* conn.commit(); {'success': True}.
DeleteCommit(t) ==
    /\ th[t].pc = "del_db"
    /\ logs' = [logs EXCEPT ![th[t].fid] = 0]
    /\ files' = Drop(files, {th[t].fid})
    /\ removed' = [removed EXCEPT ![th[t].fid] = @ + 1]
    /\ served' = [served EXCEPT ![th[t].fid] = 0]
    /\ Respond(t, 200)
    /\ UNCHANGED <<disk, now, nextId, payload, unlinked>>

\* ------------------------------------- cleanup_old_files (/admin/cleanup)
\* thirty_days_ago = now() - timedelta(days=30); SELECT stored_name ...; fetchall().
CleanupSelect(t) ==
    /\ th[t].pc = "idle"
    /\ th' = [th EXCEPT ![t] = [Idle EXCEPT !.pc = "cl_loop", !.op = "cleanup",
                                            !.cutoff = now - RETENTION,
                                            !.old = Expired(now - RETENTION)]]
    /\ UNCHANGED <<files, logs, disk, now, nextId, payload, unlinked, removed, served>>

\* for file_row in old_files: if os.path.exists(file_path)
CleanupExists(t) ==
    /\ th[t].pc = "cl_loop"
    /\ \E i \in th[t].old :
        th' = IF Exists(i)
              THEN [th EXCEPT ![t].pc = "cl_remove", ![t].fid = i]
              ELSE [th EXCEPT ![t].old = @ \ {i}]
    /\ UNCHANGED <<files, logs, disk, now, nextId, payload, unlinked, removed, served>>

\* os.remove(file_path); FileNotFoundError is not caught: 500.
CleanupRemove(t) ==
    /\ th[t].pc = "cl_remove"
    /\ IF Exists(th[t].fid)
       THEN /\ disk' = Drop(disk, {th[t].fid})
            /\ unlinked' = unlinked \cup {th[t].fid}
            /\ payload' = [payload EXCEPT ![th[t].fid] = 0]
            /\ th' = [th EXCEPT ![t].pc = "cl_loop", ![t].fid = 0,
                                ![t].old = @ \ {th[t].fid}]
       ELSE /\ Reply(t, "cleanup", 0, 500)
            /\ UNCHANGED <<disk, unlinked, payload>>
    /\ UNCHANGED <<files, logs, now, nextId, removed, served>>

\* DELETE FROM files WHERE last_accessed < ? OR upload_date < ?; conn.commit().
CleanupCommit(t) ==
    /\ th[t].pc = "cl_loop"
    /\ th[t].old = {}
    /\ files' = Drop(files, Expired(th[t].cutoff))
    /\ served' = [i \in Ids |-> IF i \in Expired(th[t].cutoff) THEN 0 ELSE served[i]]
    /\ Respond(t, 200)
    /\ UNCHANGED <<logs, disk, now, nextId, payload, unlinked, removed>>

\* ------------------------------------------------------------- responses
\* The response is sent and the thread takes the next request.
Return(t) ==
    /\ th[t].pc = "ret"
    /\ th' = [th EXCEPT ![t] = Idle]
    /\ UNCHANGED <<files, logs, disk, now, nextId, payload, unlinked, removed, served>>

Next ==
    \/ Tick
    \/ \E t \in Threads : UploadBegin(t)
    \/ \E t \in Threads : SaveOpen(t)
    \/ \E t \in Threads : SaveWrite(t)
    \/ \E t \in Threads : SaveFail(t)
    \/ \E t \in Threads : GetSize(t)
    \/ \E t \in Threads : Insert(t)
    \/ \E t \in Threads, id \in Ids : DownloadSelect(t, id)
    \/ \E t \in Threads : DownloadCommit(t)
    \/ \E t \in Threads : DownloadExists(t)
    \/ \E t \in Threads : DownloadSend(t)
    \/ \E t \in Threads, id \in Ids : DeleteSelect(t, id)
    \/ \E t \in Threads : DeleteExists(t)
    \/ \E t \in Threads : DeleteRemove(t)
    \/ \E t \in Threads : DeleteCommit(t)
    \/ \E t \in Threads : CleanupSelect(t)
    \/ \E t \in Threads : CleanupExists(t)
    \/ \E t \in Threads : CleanupRemove(t)
    \/ \E t \in Threads : CleanupCommit(t)
    \/ \E t \in Threads : Return(t)

Spec == Init /\ [][Next]_vars

\* =================================================================== claims
\* The step is taken by thread t.
StepOf(t) == th'[t] # th[t]

\* Thread t leaves handler o with HTTP status code in this step.
Answers(t, o, code) ==
    /\ th[t].pc # "ret"
    /\ th'[t].pc = "ret" /\ th'[t].op = o /\ th'[t].status = code

\* Downloads of id whose UPDATE is committed and whose response is not decided.
InFlight(id) ==
    Cardinality({t \in Threads : /\ th[t].op = "download"
                                 /\ th[t].fid = id
                                 /\ th[t].pc \in {"dl_exists", "dl_send"}})

\* C1: a sweep step never removes a row whose last_accessed is not older than
\* the sweep's cutoff, nor that row's physical file, even when its upload_date
\* is older than the cutoff.
C1_RecentlyAccessedSurvivesSweep ==
    [][\A t \in Threads :
          (th[t].op = "cleanup" /\ StepOf(t)) =>
              \A id \in DOMAIN files :
                  files[id].last_accessed >= th[t].cutoff =>
                      /\ id \in DOMAIN files'
                      /\ Exists(id) => id \in DOMAIN disk']_vars

\* C2: a download that performs its writes on a row whose physical file is
\* missing leaves the row, its download_count and last_accessed, and the
\* download log as they were.
C2_MissingFileLeavesMetadata ==
    [][\A t \in Threads :
          (th[t].pc = "dl_update" /\ StepOf(t)
              /\ Found(th[t].fid) /\ ~Exists(th[t].fid)) =>
              /\ files' = files
              /\ logs' = logs]_vars

\* C3: a download answered with 200 changed one row with its UPDATE; the
\* UPDATE adds exactly 1 to that row's download_count, does not move
\* last_accessed backwards and comes with exactly one log row for the id, and
\* leaves every other row and its log rows alone; no step lowers the
\* download_count of a row.
C3_RetrieveCountsOnce ==
    [][/\ \A t \in Threads :
            Answers(t, "download", 200) => th[t].rows = 1
       /\ \A t \in Threads :
            (th[t].pc = "dl_update" /\ StepOf(t) /\ Found(th[t].fid)) =>
                LET id == th[t].fid IN
                /\ id \in DOMAIN files'
                /\ files'[id].download_count = files[id].download_count + 1
                /\ files'[id].last_accessed >= files[id].last_accessed
                /\ logs'[id] = logs[id] + 1
                /\ \A o \in DOMAIN files \ {id} :
                    /\ o \in DOMAIN files'
                    /\ files'[o] = files[o]
                    /\ logs'[o] = logs[o]
       /\ \A id \in DOMAIN files \cap DOMAIN files' :
            files'[id].download_count >= files[id].download_count]_vars

\* C3 witness: a download of a row was answered with 200.
C3_Witness ==
    \E t \in Threads :
        /\ th[t].pc = "ret" /\ th[t].op = "download" /\ th[t].status = 200
        /\ Found(th[t].fid) /\ files[th[t].fid].download_count > 0

\* C4: once delete_file has answered success for an id, its physical file is
\* gone, the id is not listed, no download_logs row with that id remains, and
\* every download or delete of the id requested from then on is answered 404.
C4_RemovedLeavesNothing ==
    /\ \A id \in Ids :
        removed[id] > 0 =>
            /\ id \notin ListAll
            /\ ~Exists(id)
            /\ logs[id] = 0
    /\ \A t \in Threads :
        th[t].late => th[t].pc = "ret" /\ th[t].status = 404

\* C5: delete_file answers success at most once for an id, and its other
\* answers are NotFound.
C5_OneRemoveSucceeds ==
    /\ \A id \in Ids : removed[id] <= 1
    /\ \A t \in Threads :
        (th[t].pc = "ret" /\ th[t].op = "delete") => th[t].status \in {200, 404}

\* C6: while a row and its file are there (so every download of it so far has
\* succeeded or is about to), its download_count and the number of its log
\* rows both equal the number of downloads answered plus those in flight.
C6_NoLostIncrement ==
    \A id \in DOMAIN files :
        Exists(id) =>
            /\ files[id].download_count = served[id] + InFlight(id)
            /\ logs[id] = served[id] + InFlight(id)

\* C6 witness: two downloads of the same row ran concurrently and both were
\* counted.
C6_Witness ==
    \E id \in DOMAIN files :
        /\ Exists(id)
        /\ InFlight(id) = 2
        /\ files[id].download_count = 2

\* C7: an upload that ends in an error creates no row; a row is inserted only
\* when the file is completely written, with download_count 0 and file_size
\* equal to the length on disk.
C7_WriteThenRecord ==
    [][/\ \A t \in Threads :
            Answers(t, "upload", 500) =>
                /\ files' = files
                /\ ~Found(th[t].fid)
       /\ \A id \in DOMAIN files' \ DOMAIN files :
            /\ Exists(id)
            /\ disk[id] = payload[id]
            /\ files'[id].file_size = disk[id]
            /\ files'[id].download_count = 0]_vars

\* C7 witness: one upload has failed half-way and another has been recorded.
C7_Witness ==
    /\ \E t \in Threads :
        th[t].pc = "ret" /\ th[t].op = "upload" /\ th[t].status = 500
    /\ \E id \in DOMAIN files : files[id].download_count = 0 /\ Exists(id)

\* C8: a row that is visible and whose file no delete or sweep has removed
\* has its complete file on disk.
C8_VisibleMeansWritten ==
    \A id \in DOMAIN files :
        id \notin unlinked => Exists(id) /\ disk[id] = payload[id]

\* C8 witness: a download has found a row and its file while an upload is
\* half-way through writing another file.
C8_Witness ==
    \E t, u \in Threads :
        /\ th[t].pc = "dl_send" /\ th[t].fid \notin unlinked
        /\ th[u].pc = "up_write"

\* C9: delete_file on an id without a row answers 404 and changes neither
\* table nor the upload folder.
C9_RemoveMissingChangesNothing ==
    [][\A t \in Threads :
          (th[t].pc = "idle" /\ th'[t].op = "delete" /\ ~Found(th'[t].fid)) =>
              /\ th'[t].pc = "ret"
              /\ th'[t].status = 404
              /\ UNCHANGED <<files, logs, disk>>]_vars

\* C9 witness: delete_file has answered 404 while rows, log rows and files exist.
C9_Witness ==
    /\ \E t \in Threads :
        th[t].pc = "ret" /\ th[t].op = "delete" /\ th[t].status = 404
    /\ DOMAIN files # {}
    /\ \E id \in Ids : logs[id] > 0

\* C10: every row's download_count equals the number of download_logs rows
\* with its id.
C10_CountMatchesLog ==
    \A id \in DOMAIN files : files[id].download_count = logs[id]

\* C10 witness: a downloaded row is in the table while another id has been
\* deleted or swept.
C10_Witness ==
    /\ \E id \in DOMAIN files : files[id].download_count > 0
    /\ unlinked # {}

=============================================================================
